---- MODULE Spec2Model ----
(***************************************************************************)
(* stevensMapLib: free functions over std::map / std::unordered_map.       *)
(*                                                                         *)
(* A mapping is a TLA+ function from its key set to its values.  A         *)
(* string-like key is a sequence of one-character strings, so that         *)
(* operator+ on keys is \o and std::to_string yields decimal digits.       *)
(* The iteration order of an unordered_map is unspecified: every loop of   *)
(* the library runs over an order that the caller cannot choose, modelled  *)
(* as a nondeterministically chosen enumeration of the key set.            *)
(***************************************************************************)
EXTENDS Integers, Sequences, FiniteSets, TLC

VARIABLES map, call, ret

vars == <<map, call, ret>>

(***************************** bounds ***************************************)
\* Largest number of entries of an input mapping.
MaxSize == 2
\* rand() returns a value in 0..RandMax.
RandMax == 3

(***************************** domains **************************************)
\* Keys the input mappings draw from: "a", "aa", "a0", "a1".
KeyUniverse == {<<"a">>, <<"a", "a">>, <<"a", "0">>, <<"a", "1">>}

\* Values the input mappings draw from (a numeric V with negative, zero
\* and positive members).
Values == {-1, 0, 2}

\* Substrings handed to eraseStringFromKeys: "a", "0", "1".
EraseStrings == {<<"a">>, <<"0">>, <<"1">>}

\* Values of addOperationTarget: the two documented ones and an
\* undocumented one.
Targets == {"values", "keys and values", "keys"}

\* Values of the algorithm argument of createUniqueKeyString.
Algorithms == {"integer concatenation", "other"}

EmptyMap == << >>

Maps == UNION {[S -> Values] : S \in {T \in SUBSET KeyUniverse : Cardinality(T) <= MaxSize}}

\* All enumerations of the key set of m: the iteration orders begin()..end()
\* may produce.
Orders(m) ==
    {s \in [1..Cardinality(DOMAIN m) -> DOMAIN m] :
        \A i, j \in 1..Cardinality(DOMAIN m) : i # j => s[i] # s[j]}

(*************************** container primitives ***************************)
\* map.contains(k)
Contains(m, k) == k \in DOMAIN m

\* map[k] = v  (operator[] followed by assignment: inserts or overwrites)
Put(m, k, v) == [x \in (DOMAIN m) \cup {k} |-> IF x = k THEN v ELSE m[x]]

\* Variant of Emplace: the insertion overwrites an existing key.
Emplace_Overwrite(m, k, v) == Put(m, k, v)

\* map.emplace(k, v): inserts only when k is not yet a key
Emplace(m, k, v) == IF Contains(m, k) THEN m ELSE Put(m, k, v)

\* map.erase(k)
Erase(m, k) == [x \in (DOMAIN m) \ {k} |-> m[x]]

\* V{} : the value operator[] inserts for a missing key
DefaultValue == 0

(*************************** string primitives ******************************)
DigitChars == <<"0", "1", "2", "3", "4", "5", "6", "7", "8", "9">>

\* std::to_string(n) for n >= 0: the decimal digits of n
RECURSIVE to_string(_)
to_string(n) ==
    IF n < 10 THEN <<DigitChars[n + 1]>>
    ELSE to_string(n \div 10) \o <<DigitChars[(n % 10) + 1]>>

\* Does `from` occur in s at position i (1-based)?
OccursAt(s, from, i) ==
    /\ i + Len(from) - 1 <= Len(s)
    /\ \A j \in 1..Len(from) : s[i + j - 1] = from[j]

\* stevensStringLib::replaceSubstr(s, from, to): every occurrence of `from`
\* in s, found left to right without overlap, is replaced by `to`.
RECURSIVE replaceSubstr(_, _, _)
replaceSubstr(s, from, to) ==
    IF from = << >> \/ s = << >> THEN s
    ELSE IF OccursAt(s, from, 1)
         THEN to \o replaceSubstr(SubSeq(s, Len(from) + 1, Len(s)), from, to)
         ELSE <<Head(s)>> \o replaceSubstr(Tail(s), from, to)

(*************************** addUnordered_maps ******************************)
\* Variant of AddStepA: omitKeysNotShared is not consulted in the loop over A.
AddStepA_OmitIgnored(AB, A, B, key, target, omit) ==
    IF Contains(B, key)
    THEN IF target = "values"
         THEN Put(AB, key, A[key] + B[key])
         ELSE Put(AB, key \o key, A[key] + B[key])
    ELSE Put(AB, key, A[key])

\* Variant of AddStepA: the sum is stored under key in every mode.
AddStepA_KeyNotAdded(AB, A, B, key, target, omit) ==
    IF Contains(B, key)
    THEN Put(AB, key, A[key] + B[key])
    ELSE IF ~omit THEN Put(AB, key, A[key]) ELSE AB

\* Body of the loop over A (one pair of A).
AddStepA(AB, A, B, key, target, omit) ==
    IF Contains(B, key)
    THEN IF target = "values"
         THEN Put(AB, key, A[key] + B[key])
         ELSE Put(AB, key \o key, A[key] + B[key])
    ELSE IF ~omit THEN Put(AB, key, A[key]) ELSE AB

RECURSIVE AddLoopA(_, _, _, _, _, _)
AddLoopA(AB, A, B, target, omit, ord) ==
    IF ord = << >> THEN AB
    ELSE AddLoopA(AddStepA(AB, A, B, Head(ord), target, omit),
                  A, B, target, omit, Tail(ord))

\* Variant of AddStepB: every pair of B is stored, matched or not.
AddStepB_Overwrite(AB, B, key) == Put(AB, key, B[key])

\* Body of the loop over B (one pair of B).
AddStepB(AB, B, key) ==
    IF ~Contains(AB, key) THEN Put(AB, key, B[key]) ELSE AB

RECURSIVE AddLoopB(_, _, _)
AddLoopB(AB, B, ord) ==
    IF ord = << >> THEN AB
    ELSE AddLoopB(AddStepB(AB, B, Head(ord)), B, Tail(ord))

\* addUnordered_maps(A, B, addOperationTarget, omitKeysNotShared), with A
\* iterated in order ordA and B in order ordB.
addUnordered_maps(A, B, target, omit, ordA, ordB) ==
    LET AB == AddLoopA(EmptyMap, A, B, target, omit, ordA)
    IN  IF ~omit THEN AddLoopB(AB, B, ordB) ELSE AB

(*************************** getRandomKey, getFirstKey **********************)
\* getRandomKey on a non-empty map: begin() advanced rand() % size() times.
getRandomKey(m, ord, r) == ord[(r % Cardinality(DOMAIN m)) + 1]

\* getFirstKey on a non-empty map: begin()->first.
getFirstKey(m, ord) == ord[1]

\* What a build can do with rand() % 0 or with *end(): trap, or go on with
\* whatever the iterator happens to point at.
UBOutcomes == {"crash", "garbage"}

\* Keys a dereferenced end iterator can appear to hold.
GarbageKeys == {<< >>, <<"a">>}

(*************************** eraseStringFromKeys ****************************)
\* The loop of eraseStringFromKeys over the pairs still to visit.
RECURSIVE EraseLoop(_, _, _, _)
EraseLoop(returnMap, m, str, ord) ==
    IF ord = << >> THEN returnMap
    ELSE LET key         == Head(ord)
             modifiedKey == replaceSubstr(key, str, << >>)
         IN  EraseLoop(Emplace(returnMap, modifiedKey, m[key]), m, str, Tail(ord))

eraseStringFromKeys(m, str, ord) == EraseLoop(EmptyMap, m, str, ord)

(*************************** setNegativeValuesToZero ************************)
\* Variant of setNegativeValuesToZero: the comparison is reversed.
RECURSIVE setNegativeValuesToZero_Reversed(_, _)
setNegativeValuesToZero_Reversed(m, ord) ==
    IF ord = << >> THEN m
    ELSE LET key == Head(ord)
         IN  setNegativeValuesToZero_Reversed(
                 IF m[key] > 0 THEN Put(m, key, 0) ELSE m, Tail(ord))

RECURSIVE setNegativeValuesToZero(_, _)
setNegativeValuesToZero(m, ord) ==
    IF ord = << >> THEN m
    ELSE LET key == Head(ord)
         IN  setNegativeValuesToZero(IF m[key] < 0 THEN Put(m, key, 0) ELSE m,
                                     Tail(ord))

(*************************** createUniqueKeyString **************************)
\* Variant of UniqueLoop: the suffix is appended to the previous attempt.
RECURSIVE UniqueLoop_Chained(_, _, _, _)
UniqueLoop_Chained(m, originalKeyString, keyString, integerSuffix) ==
    IF Contains(m, keyString)
    THEN UniqueLoop_Chained(m, originalKeyString,
                            keyString \o to_string(integerSuffix),
                            integerSuffix + 1)
    ELSE keyString

\* The while loop: keyString is the current attempt, integerSuffix the next
\* suffix to try.
RECURSIVE UniqueLoop(_, _, _, _)
UniqueLoop(m, originalKeyString, keyString, integerSuffix) ==
    IF Contains(m, keyString)
    THEN UniqueLoop(m, originalKeyString,
                    originalKeyString \o to_string(integerSuffix),
                    integerSuffix + 1)
    ELSE keyString

createUniqueKeyString(m, keyString, algorithm) ==
    IF algorithm = "integer concatenation"
    THEN UniqueLoop(m, keyString, keyString, 0)
    ELSE keyString

(*************************** popRandom **************************************)
\* Variant of popRandom: the pair at begin() is erased instead of the drawn one.
popRandom_EraseFirst(m, ord, r) ==
    LET key   == getRandomKey(m, ord, r)
        value == m[key]
    IN  [key |-> key, value |-> value, map |-> Erase(m, getFirstKey(m, ord))]

\* popRandom on a non-empty map: [key, value, map afterwards].
popRandom(m, ord, r) ==
    LET key   == getRandomKey(m, ord, r)
        value == m[key]
    IN  [key |-> key, value |-> value, map |-> Erase(m, key)]

(*************************** the caller *************************************)
\* No call in progress.  order is the iteration order of the caller's map
\* during the call, rnd the value rand() returned.
NoCall ==
    [op |-> "none", pre |-> EmptyMap, B |-> EmptyMap, target |-> "",
     omit |-> FALSE, key |-> << >>, algorithm |-> "", order |-> << >>,
     rnd |-> 0]

\* Nothing returned.
NoRet == [outcome |-> "none", map |-> EmptyMap, key |-> << >>, value |-> 0]

Init ==
    /\ map \in Maps
    /\ call = NoCall
    /\ ret = NoRet

\* AB = addUnordered_maps(map, B, target, omit)
AddUnorderedMaps ==
    /\ call.op = "none"
    /\ \E B \in Maps, target \in Targets, omit \in BOOLEAN :
       \E ordA \in Orders(map), ordB \in Orders(B) :
          /\ call' = [NoCall EXCEPT !.op = "addUnordered_maps", !.pre = map,
                                    !.B = B, !.target = target, !.omit = omit,
                                    !.order = ordA]
          /\ ret' = [NoRet EXCEPT !.outcome = "ok",
                         !.map = addUnordered_maps(map, B, target, omit, ordA, ordB)]
    /\ UNCHANGED map

\* key = getRandomKey(map)
GetRandomKey ==
    /\ call.op = "none"
    /\ \E ord \in Orders(map), r \in 0..RandMax :
          /\ call' = [NoCall EXCEPT !.op = "getRandomKey", !.pre = map,
                                    !.order = ord, !.rnd = r]
          /\ IF map # EmptyMap
             THEN ret' = [NoRet EXCEPT !.outcome = "ok",
                                       !.key = getRandomKey(map, ord, r)]
             ELSE \E o \in UBOutcomes :
                     \E g \in (IF o = "garbage" THEN GarbageKeys ELSE {<< >>}) :
                        ret' = [NoRet EXCEPT !.outcome = o, !.key = g]
    /\ UNCHANGED map

\* key = getFirstKey(map)
GetFirstKey ==
    /\ call.op = "none"
    /\ \E ord \in Orders(map) :
          /\ call' = [NoCall EXCEPT !.op = "getFirstKey", !.pre = map,
                                    !.order = ord]
          /\ IF map # EmptyMap
             THEN ret' = [NoRet EXCEPT !.outcome = "ok",
                                       !.key = getFirstKey(map, ord)]
             ELSE \E o \in UBOutcomes :
                     \E g \in (IF o = "garbage" THEN GarbageKeys ELSE {<< >>}) :
                        ret' = [NoRet EXCEPT !.outcome = o, !.key = g]
    /\ UNCHANGED map

\* resultMap = eraseStringFromKeys(map, str)
EraseStringFromKeys ==
    /\ call.op = "none"
    /\ \E str \in EraseStrings, ord \in Orders(map) :
          /\ call' = [NoCall EXCEPT !.op = "eraseStringFromKeys", !.pre = map,
                                    !.key = str, !.order = ord]
          /\ ret' = [NoRet EXCEPT !.outcome = "ok",
                                  !.map = eraseStringFromKeys(map, str, ord)]
    /\ UNCHANGED map

\* setNegativeValuesToZero(map)
SetNegativeValuesToZero ==
    /\ call.op = "none"
    /\ \E ord \in Orders(map) :
          /\ call' = [NoCall EXCEPT !.op = "setNegativeValuesToZero",
                                    !.pre = map, !.order = ord]
          /\ map' = setNegativeValuesToZero(map, ord)
    /\ ret' = [NoRet EXCEPT !.outcome = "ok"]

\* key = createUniqueKeyString(map, keyString, algorithm)
CreateUniqueKeyString ==
    /\ call.op = "none"
    /\ \E keyString \in KeyUniverse, algorithm \in Algorithms :
          /\ call' = [NoCall EXCEPT !.op = "createUniqueKeyString", !.pre = map,
                                    !.key = keyString, !.algorithm = algorithm]
          /\ ret' = [NoRet EXCEPT !.outcome = "ok",
                         !.key = createUniqueKeyString(map, keyString, algorithm)]
    /\ UNCHANGED map

\* pair = popRandom(map)
PopRandom ==
    /\ call.op = "none"
    /\ \E ord \in Orders(map), r \in 0..RandMax :
          /\ call' = [NoCall EXCEPT !.op = "popRandom", !.pre = map,
                                    !.order = ord, !.rnd = r]
          /\ IF map # EmptyMap
             THEN LET p == popRandom(map, ord, r)
                  IN  /\ ret' = [NoRet EXCEPT !.outcome = "ok", !.key = p.key,
                                              !.value = p.value]
                      /\ map' = p.map
             ELSE \E o \in UBOutcomes :
                     IF o = "crash"
                     THEN /\ ret' = [NoRet EXCEPT !.outcome = o]
                          /\ map' = map
                     ELSE \E g \in GarbageKeys :
                             \* map[key] inserts V{} under the garbage key,
                             \* map.erase(key) removes it again
                             /\ ret' = [NoRet EXCEPT !.outcome = o, !.key = g,
                                                     !.value = DefaultValue]
                             /\ map' = Erase(Put(map, g, DefaultValue), g)

\* The caller takes the result; a crashed process makes no further call.
Return ==
    /\ call.op # "none"
    /\ ret.outcome # "crash"
    /\ call' = NoCall
    /\ ret' = NoRet
    /\ UNCHANGED map

Next ==
    \/ AddUnorderedMaps
    \/ GetRandomKey
    \/ GetFirstKey
    \/ EraseStringFromKeys
    \/ SetNegativeValuesToZero
    \/ CreateUniqueKeyString
    \/ PopRandom
    \/ Return

Spec == Init /\ [][Next]_vars

(*************************** properties *************************************)
Keys(m) == DOMAIN m

Size(m) == Cardinality(DOMAIN m)

\* The call just made is a call of f.
Called(f) == call.op = f

\* Keys the two arguments of addUnordered_maps share.
Shared == Keys(call.pre) \cap Keys(call.B)

OnlyInA == Keys(call.pre) \ Keys(call.B)

OnlyInB == Keys(call.B) \ Keys(call.pre)

Doubled(S) == {k \o k : k \in S}

\* C1 (as stated): with omitKeysNotShared = true, whatever the target, the
\* key set of the result of addUnordered_maps is keys(A) \cap keys(B).
C1_KeySetIsIntersection ==
    (Called("addUnordered_maps") /\ call.omit)
        => Keys(ret.map) = Shared

\* C1 (amended): with omitKeysNotShared = true the result has exactly
\* |keys(A) \cap keys(B)| entries; its key set is keys(A) \cap keys(B) when
\* the target is "values" and {k+k : k shared} for every other target.
C1_SharedKeysOnly ==
    (Called("addUnordered_maps") /\ call.omit)
        => /\ Size(ret.map) = Cardinality(Shared)
           /\ call.target = "values" => Keys(ret.map) = Shared
           /\ call.target # "values" => Keys(ret.map) = Doubled(Shared)

C1_Witness ==
    /\ Called("addUnordered_maps") /\ call.omit
    /\ call.target = "keys and values"
    /\ Shared # {}
    /\ OnlyInA # {}
    /\ OnlyInB # {}
    /\ Keys(ret.map) = Doubled(Shared)

\* C2: in "values" mode, for either value of omitKeysNotShared, a key k
\* shared by A and B is bound to A[k] + B[k] in the result.
C2_SharedValuesAdded ==
    (Called("addUnordered_maps") /\ call.target = "values")
        => \A k \in Shared :
              /\ k \in Keys(ret.map)
              /\ ret.map[k] = call.pre[k] + call.B[k]

C2_Witness ==
    /\ Called("addUnordered_maps") /\ call.target = "values" /\ ~call.omit
    /\ \E k \in Shared :
          /\ call.pre[k] # 0
          /\ ret.map[k] = call.pre[k] + call.B[k]
          /\ ret.map[k] # call.B[k]

\* C3: with omitKeysNotShared = false, in every target mode, a key present
\* in only one of A and B is in the result with the value that input gave it.
C3_UnsharedCopiedThrough ==
    (Called("addUnordered_maps") /\ ~call.omit)
        => /\ \A k \in OnlyInA : k \in Keys(ret.map) /\ ret.map[k] = call.pre[k]
           /\ \A k \in OnlyInB : k \in Keys(ret.map) /\ ret.map[k] = call.B[k]

\* Positions of the iteration whose key becomes the same key as position i's
\* once str is erased.
Collapsing(i) ==
    {j \in 1..Len(call.order) :
        replaceSubstr(call.order[j], call.key, << >>)
            = replaceSubstr(call.order[i], call.key, << >>)}

\* C4 (as stated): when several keys collapse to one key in
\* eraseStringFromKeys, the result binds it to the value of the pair visited
\* last.
C4_LastWriteWins ==
    Called("eraseStringFromKeys")
        => \A i \in 1..Len(call.order) :
              (\A j \in Collapsing(i) : j <= i)
                  => ret.map[replaceSubstr(call.order[i], call.key, << >>)]
                         = call.pre[call.order[i]]

\* C4 (amended): when several keys collapse to one key in
\* eraseStringFromKeys, the result binds it to the value of the pair visited
\* first; the later emplace leaves the entry as it is.
C4_FirstWriteWins ==
    Called("eraseStringFromKeys")
        => \A i \in 1..Len(call.order) :
              (\A j \in Collapsing(i) : j >= i)
                  => /\ replaceSubstr(call.order[i], call.key, << >>) \in Keys(ret.map)
                     /\ ret.map[replaceSubstr(call.order[i], call.key, << >>)]
                            = call.pre[call.order[i]]

C4_Witness ==
    /\ Called("eraseStringFromKeys")
    /\ Len(call.order) = 2
    /\ Collapsing(1) = {1, 2}
    /\ call.pre[call.order[1]] # call.pre[call.order[2]]
    /\ Size(ret.map) = 1

\* C5: getRandomKey, getFirstKey and popRandom on an empty map end in a
\* checked EmptyContainerError, and popRandom leaves the map as it was.
C5_EmptyIsCheckedError ==
    (/\ call.op \in {"getRandomKey", "getFirstKey", "popRandom"}
     /\ call.pre = EmptyMap)
        => /\ ret.outcome = "EmptyContainerError"
           /\ map = call.pre

\* C6: popRandom on a non-empty map returns a pair (k, v) of the original
\* map, and afterwards the map lacks k, is one entry smaller and holds every
\* other entry unchanged.
C6_PopRandomRemovesReturnedPair ==
    (Called("popRandom") /\ call.pre # EmptyMap)
        => /\ ret.outcome = "ok"
           /\ ret.key \in Keys(call.pre)
           /\ ret.value = call.pre[ret.key]
           /\ ret.key \notin Keys(map)
           /\ Size(map) = Size(call.pre) - 1
           /\ \A k \in Keys(call.pre) \ {ret.key} :
                 k \in Keys(map) /\ map[k] = call.pre[k]

C6_Witness ==
    /\ Called("popRandom")
    /\ Size(call.pre) = 2
    /\ call.rnd >= Size(call.pre)
    /\ ret.key = call.order[2]
    /\ Size(map) = 1

\* C7: with "integer concatenation", createUniqueKeyString returns the
\* candidate itself when the map lacks it, and otherwise the candidate
\* followed by the smallest n >= 0 for which candidate+n is not a key.
C7_SmallestFreeSuffix ==
    (Called("createUniqueKeyString") /\ call.algorithm = "integer concatenation")
        => IF call.key \notin Keys(call.pre)
           THEN ret.key = call.key
           ELSE \E n \in 0..Size(call.pre) :
                   /\ ret.key = call.key \o to_string(n)
                   /\ ret.key \notin Keys(call.pre)
                   /\ \A i \in 0..(n - 1) :
                         (call.key \o to_string(i)) \in Keys(call.pre)

C7_Witness ==
    /\ Called("createUniqueKeyString")
    /\ call.algorithm = "integer concatenation"
    /\ call.key = <<"a">>
    /\ {<<"a">>, <<"a", "0">>} \subseteq Keys(call.pre)
    /\ ret.key = <<"a", "1">>

\* C8: for every algorithm argument, the key createUniqueKeyString returns
\* for a candidate that is a key of the map is not a key of the map, and the
\* map is unchanged.
C8_ReturnedKeyIsFresh ==
    (Called("createUniqueKeyString") /\ call.key \in Keys(call.pre))
        => /\ ret.key \notin Keys(call.pre)
           /\ map = call.pre

\* C9: setNegativeValuesToZero keeps the key set, binds every entry that was
\* below zero to zero, keeps every other entry, and run again changes nothing.
C9_NegativesZeroed ==
    Called("setNegativeValuesToZero")
        => /\ Keys(map) = Keys(call.pre)
           /\ \A k \in Keys(call.pre) :
                 map[k] = IF call.pre[k] < 0 THEN 0 ELSE call.pre[k]
           /\ \A ord \in Orders(map) : setNegativeValuesToZero(map, ord) = map

C9_Witness ==
    /\ Called("setNegativeValuesToZero")
    /\ \E k \in Keys(call.pre) : call.pre[k] < 0 /\ map[k] = 0
    /\ \E k \in Keys(call.pre) : call.pre[k] > 0 /\ map[k] = call.pre[k]

\* k is j+j for a key j the two maps share.
IsDoubledShared(k) == k \in Doubled(Shared)

====
